---- MODULE Spec2Model ----
(***************************************************************************)
(* The custom smooth-scroll engine of main.js (initSmoothScroll), the      *)
(* rewind button, the loader hand-off that sets state.isLoaded, and the    *)
(* signals window.__SCROLL_MOMENTUM / window.__GLOBAL_PROGRESS.            *)
(*                                                                         *)
(* Lengths are pixels.  JavaScript numbers are IEEE doubles: a result is   *)
(* rounded to the nearest representable value.  The model keeps that       *)
(* rounding but at a coarser grain: every computed (non-integer) result is *)
(* rounded to the nearest multiple of Quantum pixels, and the progress     *)
(* fraction to the nearest 1/ProgressDenom.                                *)
(***************************************************************************)
EXTENDS Integers, Sequences, FiniteSets, TLC

VARIABLES
    isLoaded,       \* state.isLoaded
    target,         \* state.scroll.target
    y,              \* state.scroll.y
    velocity,       \* state.scroll.velocity
    limit,          \* state.scroll.limit
    momentum,       \* window.__SCROLL_MOMENTUM
    progress,       \* window.__GLOBAL_PROGRESS, in units of 1/ProgressDenom
    touchY,         \* let touchY of initSmoothScroll
    contentHeight,  \* scrollContent.getBoundingClientRect().height
    innerHeight,    \* window.innerHeight
    scrollRAF,      \* is a fluidScrollRender frame callback scheduled
    tweens,         \* gsap.to(state.scroll, ...) tweens in flight, oldest first
    overlayFades,   \* gsap.to('.loader-overlay', ...) tweens in flight
    enterClicks,    \* clicks on enter-btn so far
    rewindAlone,    \* history: a rewind begun at rest (y = target > 0) with
                    \* no input and no further rewind click since
    lastOp,         \* history: the kind of handler or callback that ran last
    defaultPrevented, \* did the handler that ran last call e.preventDefault()
    lastTouchY,     \* history: clientY of the touch event delivered last
    frameDone,      \* the per-frame callbacks that have run in this frame
    signalAges,     \* history: frames since momentum / progress were computed
    uniforms,       \* u_scrollVelocity, u_scrollProgress of canvas.js
    readAges,       \* history: signalAges at the shader's last read
    exactTarget,    \* state.scroll.target in units of 1/ExactScale px
    exactY,         \* state.scroll.y in units of 1/ExactScale px
    exactTicks,     \* frames run since exactTarget was set
    pct,            \* let pct of initLoaderSequence
    loaderTicks,    \* history: runs of the loadInterval callback so far
    loadInterval,   \* is the loader's setInterval still armed
    finishTimer,    \* is the loader's 500 ms "Loading Finish" timeout pending
    btnDisabled,    \* does enter-btn carry the class "disabled"
    worldBooted,    \* history: what isLoaded was at the last 'world-booted' dispatch
    actx,           \* has AudioEngine_Boot created the AudioContext
    tickTimers,     \* pending setTimeout(scheduleClockTick, ...) timeouts
    audioRAF,       \* pending requestAnimationFrame(modulateAudioByScroll) callbacks
    tickDelay,      \* dynamicInterval of the last scheduleClockTick, in ms
    lowpassTarget,  \* targetFreq last given to masterLowpass.frequency, in Hz
    maskLeft,       \* did the constructor find the .mask-left element
    isAnimating,    \* SceneTransitionController.isAnimating
    maskTweens,     \* mask tweens in flight: "close" or "open", oldest first
    activeIndex,    \* TimelineAnimator.activeIndex
    activeNodes,    \* indices of the .timeline-node elements with class is-active
    lineScale,      \* scaleY of .timeline-line, in units of 1/NumNodes
    maskScaleX,     \* scaleX the masks were last brought to by a completed tween
    sceneInd,       \* number shown by .current-scene
    duringTween     \* history: handlers that ran while a rewind tween was in
                    \* flight, since the first click of the current rewind

vars == <<isLoaded, target, y, velocity, limit, momentum, progress, touchY,
          contentHeight, innerHeight, scrollRAF, tweens, overlayFades,
          enterClicks, rewindAlone, lastOp, defaultPrevented, lastTouchY,
          frameDone, signalAges, uniforms, readAges, exactTarget, exactY,
          exactTicks, pct, loaderTicks, loadInterval, finishTimer, btnDisabled,
          worldBooted, actx, tickTimers, audioRAF, tickDelay, lowpassTarget,
          maskLeft,
          isAnimating, maskTweens, activeIndex, activeNodes, lineScale,
          maskScaleX, sceneInd, duringTween>>

\* What the shader render loop owns, and the fine-grained copy of the integrator.
shaderVars == <<uniforms, readAges>>
exactVars == <<exactTarget, exactY, exactTicks>>
\* The loader, the audio engine and the scene effects.
loaderVars == <<pct, loaderTicks, loadInterval, finishTimer, btnDisabled>>
audioVars == <<actx, tickTimers, audioRAF, tickDelay, lowpassTarget>>
effectVars == <<maskLeft, isAnimating, maskTweens, activeIndex, activeNodes,
                lineScale, maskScaleX, sceneInd>>

(***************************************************************************)
(* Bounds of the model.                                                    *)
(***************************************************************************)
\* Arithmetic resolution: results are rounded to multiples of 100/Resolution px.
Resolution == 5
\* Frames the host delivers per second of tween time.
FramesPerSecond == 1
\* Rewind tweens that may be in flight together.
MaxTweens == 1
\* Resolution of the progress fraction.
ProgressDenom == 4
\* Clicks on the enter button.
MaxEnterClicks == 1
\* Frames of age at which the age of a published signal stops being counted.
MaxAge == 2
\* Units per pixel of the fine-grained copy of the integrator.
ExactScale == 1000
\* Frames the fine-grained copy runs after its target is set.
MaxExactTicks == 52
\* Clicks on enter-btn while the loader runs and after it.
MaxLoaderClicks == 2
\* Rewind tweens that may overlap when rewinds race the input handlers.
MaxRaceTweens == 2
\* .timeline-node elements and section elements in the document.
NumNodes == 3
NumSections == 2

(***************************************************************************)
(* Program constants.                                                      *)
(***************************************************************************)
EasePercent == 8
LinePx == 40
ArrowPx == 100
PagePercent == 80
TouchTenths == 25
TweenSeconds == 3
RecordVel == 10
BaseTickInterval == 1000
TickSpan == 920
MinTickInterval == 80
TickVelRange == 1500
MaxJump == 15
MaxFreq == 22000
FreqSpan == 21500
FreqVelRange == 1000
ShaderEasePercent == 10

(***************************************************************************)
(* Inputs the environment may deliver.                                     *)
(***************************************************************************)
\* <<deltaY, deltaMode>> of a wheel event; deltaMode 1 is DOM_DELTA_LINE.
WheelEvents == {<<500, 0>>, <<-5, 1>>}
\* e.key of a keydown event; "Escape" stands for every key the switch ignores.
Keys == {"ArrowDown", "ArrowUp", "PageDown", " ", "PageUp", "Home", "End", "Escape"}
\* clientY of the first touch point.
TouchYs == {0, 40}
\* Pixel-mode wheel deltas applied at rest at the top, for the fine-grained copy.
ExactDeltas == {500, 250}
\* <<content height, viewport height>> the layout may have.
Layouts == {<<1000, 500>>, <<1300, 1000>>, <<500, 500>>, <<400, 500>>}

(***************************************************************************)
(* Arithmetic.                                                             *)
(***************************************************************************)
Max(a, b) == IF a >= b THEN a ELSE b
Min(a, b) == IF a <= b THEN a ELSE b
Abs(a) == IF a < 0 THEN -a ELSE a

\* The grain of the arithmetic, in pixels.
Quantum == 100 \div Resolution

\* n/d (d > 0) rounded to the nearest multiple of q, as a double rounds to
\* the nearest representable value.
RoundDiv(n, d, q) == q * ((2 * n + d * q) \div (2 * d * q))

\* A clamp that forgets the lower bound.
ClampNoFloor(v, lim) == Min(v, lim)

\* Math.max(0, Math.min(v, state.scroll.limit))
Clamp(v, lim) == Max(0, Min(v, lim))

\* A step that moves y by one grain more than the eased distance.
LerpCreep(yy, tg) == yy + RoundDiv((tg - yy) * EasePercent, 100, Quantum) + Quantum

\* A step with an ease factor above 1.
LerpOvershoot(yy, tg) == yy + RoundDiv((tg - yy) * (100 + EasePercent), 100, Quantum)

\* state.scroll.y += (state.scroll.target - state.scroll.y) * state.scroll.ease
Lerp(yy, tg) == yy + RoundDiv((tg - yy) * EasePercent, 100, Quantum)

\* The same statement on lengths in units of 1/ExactScale px.
LerpExact(yy, tg) == yy + RoundDiv((tg - yy) * EasePercent, 100, 1)

\* let vel = (state.scroll.target - state.scroll.y)
Velocity(yy, tg) == tg - yy

\* scrollContent.getBoundingClientRect().height - window.innerHeight
Bounds(ch, ih) == ch - ih

\* Math.max(0, Math.min(1, state.scroll.y / state.scroll.limit)), for limit > 0
ProgressOf(yy, lim) == Max(0, Min(ProgressDenom, RoundDiv(yy * ProgressDenom, lim, 1)))

\* if (state.scroll.limit > 0) window.__GLOBAL_PROGRESS = ...; no else branch
PublishedProgress(yy, lim, old) == IF lim > 0 THEN ProgressOf(yy, lim) ELSE old

(***************************************************************************)
(* The rewind tween: gsap.to(state.scroll, {target: 0, y: 0, duration: 3,  *)
(* ease: "expo.inOut"}).  GSAP reads the start values at the tween's first *)
(* render and on every render writes start + (end - start) * ratio to each *)
(* property; tweens of one target render oldest first.                     *)
(***************************************************************************)
\* Frames a rewind tween lasts.
TweenFrames == TweenSeconds * FramesPerSecond

\* The ease ratios are fractions of EaseScale.
EaseScale == 2 ^ 10

\* GSAP's expo "in" ease at p = a/b in [0, 1]: 0 at p = 0, else 2^(10(p - 1)),
\* as a fraction of EaseScale; the power of two is interpolated linearly
\* between neighbouring integer exponents.
ExpoIn(a, b) ==
    IF a = 0 THEN 0
    ELSE LET n == 10 * (b - a)
             i == n \div b
             f == n % b
         IN  ((EaseScale \div (2 ^ i)) * (2 * b - f)) \div (2 * b)

\* GSAP's expo.inOut at p = k/n: in(2p)/2 below one half, 1 - in(2(1-p))/2 above.
ExpoInOut(k, n) ==
    IF 2 * k < n THEN ExpoIn(2 * k, n) \div 2
    ELSE EaseScale - (ExpoIn(2 * (n - k), n) \div 2)

\* The value a rewind tween writes at frame k to a property that started at s
\* and ends at 0: start + (0 - start) * ratio.
TweenValue(s, k) == RoundDiv(s * (EaseScale - ExpoInOut(k, TweenFrames)), EaseScale, Quantum)

NewTween == [initted |-> FALSE, frame |-> 0, sTarget |-> 0, sY |-> 0]

\* One GSAP tick over the tweens in flight, oldest first, starting from
\* target tg and position yy: the tweens that remain and the values written.
RECURSIVE RenderTweens(_, _, _)
RenderTweens(ts, tg, yy) ==
    IF ts = <<>> THEN [tw |-> <<>>, target |-> tg, y |-> yy]
    ELSE LET h == Head(ts)
             s == IF h.initted THEN h
                  ELSE [h EXCEPT !.initted = TRUE, !.sTarget = tg, !.sY = yy]
             k == s.frame + 1
             rest == RenderTweens(Tail(ts), TweenValue(s.sTarget, k), TweenValue(s.sY, k))
         IN  [rest EXCEPT !.tw = IF k >= TweenFrames THEN rest.tw
                                 ELSE <<[s EXCEPT !.frame = k]>> \o rest.tw]

(***************************************************************************)
(* State after DOMContentLoaded: initSmoothScroll has run calculateBounds   *)
(* and the first fluidScrollRender, which scheduled the next frame.        *)
(***************************************************************************)
Init ==
    /\ \E l \in Layouts:
        /\ contentHeight = l[1]
        /\ innerHeight = l[2]
        /\ limit = Bounds(l[1], l[2])
    /\ isLoaded = FALSE
    /\ target = 0
    /\ y = 0
    /\ velocity = 0
    /\ momentum = 0
    /\ progress = 0
    /\ touchY = 0
    /\ scrollRAF = TRUE
    /\ tweens = <<>>
    /\ overlayFades = 0
    /\ enterClicks = 0
    /\ rewindAlone = FALSE
    /\ lastOp = "boot"
    /\ defaultPrevented = FALSE
    /\ lastTouchY = 0
    /\ frameDone = {}
    /\ signalAges = [momentum |-> 0, progress |-> 0]
    /\ uniforms = [u_scrollVelocity |-> 0, u_scrollProgress |-> 0]
    /\ readAges = [momentum |-> 0, progress |-> 0]
    /\ exactTarget = 0
    /\ exactY = 0
    /\ exactTicks = 0
    /\ pct = 0
    /\ loaderTicks = 0
    /\ loadInterval = TRUE
    /\ finishTimer = FALSE
    /\ btnDisabled = TRUE
    /\ maskLeft = TRUE
    /\ isAnimating = FALSE
    /\ maskTweens = <<>>
    /\ activeIndex = -1
    /\ activeNodes = {}
    /\ lineScale = 0
    /\ maskScaleX = 0
    /\ sceneInd = 0
    /\ duringTween = {}
    /\ worldBooted = "none"
    /\ actx = FALSE
    /\ tickTimers = 0
    /\ audioRAF = 0
    /\ tickDelay = 0
    /\ lowpassTarget = 0

(***************************************************************************)
(* Input Capture.                                                          *)
(***************************************************************************)
\* A wheel listener without the isLoaded guard.
WheelTargetUnguarded(loaded, tg, lim, e) == Clamp(tg + (IF e[2] = 1 THEN e[1] * LinePx ELSE e[1]), lim)

\* A wheel listener that takes every delta as pixels.
WheelTargetPixelsOnly(loaded, tg, lim, e) ==
    IF ~loaded THEN tg
    ELSE Clamp(tg + e[1], lim)

\* wheel listener, for the event <<deltaY, deltaMode>>: the new target.
WheelTarget(loaded, tg, lim, e) ==
    IF ~loaded THEN tg
    ELSE Clamp(tg + (IF e[2] = 1 THEN e[1] * LinePx ELSE e[1]), lim)

\* A wheel listener that also moves the position to the new target.
WheelSnapsPosition(e) ==
    /\ target' = WheelTarget(isLoaded, target, limit, e)
    /\ y' = target'
    /\ lastOp' = "input"
    /\ rewindAlone' = FALSE
    /\ UNCHANGED <<isLoaded, velocity, limit, momentum, progress, touchY,
                   contentHeight, innerHeight, scrollRAF, tweens, overlayFades,
                   enterClicks>>
    /\ defaultPrevented' = FALSE
    /\ UNCHANGED <<lastTouchY, frameDone, signalAges, shaderVars, exactVars>>
    /\ UNCHANGED <<loaderVars, worldBooted, audioVars, effectVars>>
    /\ duringTween' = IF tweens # <<>> /\ target' # target
                    THEN duringTween \cup {"wheel"} ELSE duringTween

Wheel(e) ==
    /\ target' = WheelTarget(isLoaded, target, limit, e)
    /\ lastOp' = "input"
    /\ rewindAlone' = FALSE
    /\ UNCHANGED <<isLoaded, y, velocity, limit, momentum, progress, touchY,
                   contentHeight, innerHeight, scrollRAF, tweens, overlayFades,
                   enterClicks>>
    /\ defaultPrevented' = FALSE
    /\ UNCHANGED <<lastTouchY, frameDone, signalAges, shaderVars, exactVars>>
    /\ UNCHANGED <<loaderVars, worldBooted, audioVars, effectVars>>
    /\ duringTween' = IF tweens # <<>> /\ target' # target
                    THEN duringTween \cup {"wheel"} ELSE duringTween

\* The amount the keydown switch assigns.
KeyAmount(key, ih) ==
    CASE key = "ArrowDown" -> ArrowPx
      [] key = "ArrowUp" -> -ArrowPx
      [] key \in {"PageDown", " "} -> RoundDiv(ih * PagePercent, 100, 1)
      [] key = "PageUp" -> -RoundDiv(ih * PagePercent, 100, 1)
      [] OTHER -> 0

\* keydown listener: the new target.
KeyTarget(loaded, tg, lim, key, ih) ==
    IF ~loaded THEN tg
    ELSE LET t1 == CASE key = "Home" -> 0
                     [] key = "End" -> lim
                     [] OTHER -> tg
             amount == KeyAmount(key, ih)
         IN  IF amount # 0 THEN Clamp(t1 + amount, lim) ELSE t1

\* e.preventDefault() is called inside if (amount !== 0) only.
KeyPrevented(loaded, key, ih) == loaded /\ KeyAmount(key, ih) # 0

\* Does the switch assign target or a non-zero amount for this key?
KeyHandled(key, ih) == KeyAmount(key, ih) # 0 \/ key \in {"Home", "End"}

KeyDown(key) ==
    /\ target' = KeyTarget(isLoaded, target, limit, key, innerHeight)
    /\ lastOp' = IF KeyHandled(key, innerHeight) THEN "input" ELSE "keyIgnored"
    /\ rewindAlone' = FALSE
    /\ UNCHANGED <<isLoaded, y, velocity, limit, momentum, progress, touchY,
                   contentHeight, innerHeight, scrollRAF, tweens, overlayFades,
                   enterClicks>>
    /\ defaultPrevented' = KeyPrevented(isLoaded, key, innerHeight)
    /\ UNCHANGED <<lastTouchY, frameDone, signalAges, shaderVars, exactVars>>
    /\ UNCHANGED <<loaderVars, worldBooted, audioVars, effectVars>>
    /\ duringTween' = IF tweens # <<>> /\ target' # target
                    THEN duringTween \cup {"keydown"} ELSE duringTween

TouchStart(cy) ==
    /\ touchY' = cy
    /\ lastOp' = "touchstart"
    /\ UNCHANGED <<isLoaded, target, y, velocity, limit, momentum, progress,
                   contentHeight, innerHeight, scrollRAF, tweens, overlayFades,
                   enterClicks, rewindAlone>>
    /\ lastTouchY' = cy
    /\ defaultPrevented' = FALSE
    /\ UNCHANGED <<frameDone, signalAges, shaderVars, exactVars>>
    /\ UNCHANGED <<loaderVars, worldBooted, audioVars, effectVars>>
    /\ UNCHANGED duringTween

\* touchmove listener: the new target.
TouchTarget(loaded, tg, lim, ty, cy) ==
    IF ~loaded THEN tg
    ELSE Clamp(tg + RoundDiv((ty - cy) * TouchTenths, 10, 1), lim)

TouchMove(cy) ==
    /\ target' = TouchTarget(isLoaded, target, limit, touchY, cy)
    /\ touchY' = IF isLoaded THEN cy ELSE touchY
    /\ lastOp' = "input"
    /\ rewindAlone' = FALSE
    /\ UNCHANGED <<isLoaded, y, velocity, limit, momentum, progress,
                   contentHeight, innerHeight, scrollRAF, tweens, overlayFades,
                   enterClicks>>
    /\ lastTouchY' = cy
    /\ defaultPrevented' = FALSE
    /\ UNCHANGED <<frameDone, signalAges, shaderVars, exactVars>>
    /\ UNCHANGED <<loaderVars, worldBooted, audioVars, effectVars>>
    /\ duringTween' = IF tweens # <<>> /\ target' # target
                    THEN duringTween \cup {"touchmove"} ELSE duringTween

(***************************************************************************)
(* Bounds: the resize listener calculateBounds and the ScrollTrigger       *)
(* "refresh" listener that ScrollTrigger.refresh() fires.                  *)
(***************************************************************************)
Resize(l) ==
    /\ contentHeight' = l[1]
    /\ innerHeight' = l[2]
    /\ limit' = Bounds(l[1], l[2])
    /\ lastOp' = "resize"
    /\ UNCHANGED <<isLoaded, target, y, velocity, momentum, progress, touchY,
                   scrollRAF, tweens, overlayFades,
                   enterClicks, rewindAlone>>
    /\ defaultPrevented' = FALSE
    /\ UNCHANGED <<lastTouchY, frameDone, signalAges, shaderVars, exactVars>>
    /\ UNCHANGED <<loaderVars, worldBooted, audioVars, effectVars>>
    /\ UNCHANGED duringTween

(***************************************************************************)
(* Scroll Physics Integrator: one frame of fluidScrollRender.              *)
(***************************************************************************)
\* The collaborator call of the frame that throws, if any.
Throwers == {"none", "recordData", "ScrollTrigger.update"}

\* Fingerprint.recordData(vel, progress) dereferences this.nodes, which the
\* constructor leaves undefined when the canvas is missing, only when
\* Math.random() > 0.95 && vel > 10; it is called only if limit > 0.
CanThrow(thrower, lim, vel) ==
    thrower = "recordData" => (lim > 0 /\ Abs(vel) > RecordVel)

\* requestAnimationFrame(fluidScrollRender) is the frame's last statement and
\* no try/catch surrounds the frame: a throw before it leaves nothing scheduled.
Rescheduled(thrower) == thrower = "none"

\* window.__SCROLL_MOMENTUM = state.scroll.velocity
\* A frame that computes the velocity before it updates y.
TickVelocityFirst(thrower) ==
    /\ scrollRAF
    /\ LET y1 == Lerp(y, target)
           vel == Velocity(y, target)
       IN  /\ CanThrow(thrower, limit, vel)
           /\ y' = y1
           /\ velocity' = vel
           /\ momentum' = vel
           /\ progress' = PublishedProgress(y1, limit, progress)
    /\ scrollRAF' = Rescheduled(thrower)
    /\ lastOp' = "tick"
    /\ UNCHANGED <<isLoaded, target, limit, touchY, contentHeight, innerHeight,
                   tweens, overlayFades, enterClicks, rewindAlone>>
    /\ frameDone' = frameDone \cup {"scroll"}
    /\ signalAges' = [momentum |-> 0,
                      progress |-> IF limit > 0 THEN 0 ELSE signalAges.progress]
    /\ defaultPrevented' = FALSE
    /\ UNCHANGED <<lastTouchY, shaderVars, exactVars>>
    /\ UNCHANGED <<loaderVars, worldBooted, audioVars, effectVars>>
    /\ UNCHANGED duringTween

\* y is updated first; velocity is computed from the updated y and then
\* published as window.__SCROLL_MOMENTUM; progress is published if limit > 0.
Tick(thrower) ==
    /\ scrollRAF
    /\ LET y1 == Lerp(y, target)
           vel == Velocity(y1, target)
       IN  /\ CanThrow(thrower, limit, vel)
           /\ y' = y1
           /\ velocity' = vel
           /\ momentum' = vel
           /\ progress' = PublishedProgress(y1, limit, progress)
    /\ scrollRAF' = Rescheduled(thrower)
    /\ lastOp' = "tick"
    /\ UNCHANGED <<isLoaded, target, limit, touchY, contentHeight, innerHeight,
                   tweens, overlayFades, enterClicks, rewindAlone>>
    /\ frameDone' = frameDone \cup {"scroll"}
    /\ signalAges' = [momentum |-> 0,
                      progress |-> IF limit > 0 THEN 0 ELSE signalAges.progress]
    /\ defaultPrevented' = FALSE
    /\ UNCHANGED <<lastTouchY, shaderVars, exactVars>>
    /\ UNCHANGED <<loaderVars, worldBooted, audioVars, effectVars>>
    /\ UNCHANGED duringTween

(***************************************************************************)
(* Rewind: the btn-rewind click listener and GSAP's ticker.                *)
(***************************************************************************)
\* A click listener that also assigns state.scroll.target = 0 itself.
RewindClickSetsTarget ==
    /\ Len(tweens) < MaxTweens
    /\ tweens' = Append(tweens, NewTween)
    /\ target' = 0
    /\ rewindAlone' = (tweens = <<>> /\ y = target /\ target > 0)
    /\ lastOp' = "rewind"
    /\ UNCHANGED <<isLoaded, y, velocity, limit, momentum, progress, touchY,
                   contentHeight, innerHeight, scrollRAF, overlayFades,
                   enterClicks>>
    /\ defaultPrevented' = FALSE
    /\ UNCHANGED <<lastTouchY, frameDone, signalAges, shaderVars, exactVars>>
    /\ UNCHANGED <<loaderVars, worldBooted, audioVars, effectVars>>
    /\ duringTween' = IF tweens # <<>> THEN duringTween \cup {"rewind"} ELSE {}

\* The click listener only creates the tween; state.scroll is written by the
\* tween's renders.
\* The click listener while fewer than n rewind tweens are in flight: it
\* starts one more tween and writes nothing itself.
RewindClickUpTo(n) ==
    /\ Len(tweens) < n
    /\ tweens' = Append(tweens, NewTween)
    /\ rewindAlone' = (tweens = <<>> /\ y = target /\ target > 0)
    /\ lastOp' = "rewind"
    /\ UNCHANGED <<isLoaded, target, y, velocity, limit, momentum, progress,
                   touchY, contentHeight, innerHeight, scrollRAF, overlayFades,
                   enterClicks>>
    /\ defaultPrevented' = FALSE
    /\ UNCHANGED <<lastTouchY, frameDone, signalAges, shaderVars, exactVars>>
    /\ UNCHANGED <<loaderVars, worldBooted, audioVars, effectVars>>
    /\ duringTween' = IF tweens # <<>> THEN duringTween \cup {"rewind"} ELSE {}

RewindClick == RewindClickUpTo(MaxTweens)

\* scrollerProxy's scrollTop(value) called with an argument: the setter.
ScrollTop(value) ==
    /\ target' = value
    /\ y' = value
    /\ rewindAlone' = FALSE
    /\ lastOp' = "scrollTop"
    /\ UNCHANGED <<isLoaded, velocity, limit, momentum, progress, touchY,
                   contentHeight, innerHeight, scrollRAF, tweens, overlayFades,
                   enterClicks>>
    /\ defaultPrevented' = FALSE
    /\ UNCHANGED <<lastTouchY, frameDone, signalAges, shaderVars, exactVars>>
    /\ UNCHANGED <<loaderVars, worldBooted, audioVars, effectVars>>
    /\ UNCHANGED duringTween

\* ScrollTrigger writes back through the setter a position it has just read
\* through the getter (which returns y); it skips a position of 0.
ScrollRestore ==
    /\ y # 0
    /\ ScrollTop(y)

\* A rewind tween of y alone.
GsapTickYOnly ==
    /\ tweens # <<>>
    /\ LET r == RenderTweens(tweens, target, y)
       IN  /\ tweens' = r.tw
           /\ y' = r.y
           /\ lastOp' = IF Len(r.tw) < Len(tweens) THEN "tweenEnd" ELSE "tween"
    /\ UNCHANGED <<isLoaded, target, velocity, limit, momentum, progress, touchY,
                   contentHeight, innerHeight, scrollRAF, overlayFades,
                   enterClicks, rewindAlone>>
    /\ defaultPrevented' = FALSE
    /\ UNCHANGED <<lastTouchY, frameDone, signalAges, shaderVars, exactVars>>
    /\ UNCHANGED <<loaderVars, worldBooted, audioVars, effectVars>>
    /\ UNCHANGED duringTween

\* A ticker whose tweens stop writing target once an input has moved it.
GsapTickYieldsToInput ==
    /\ tweens # <<>>
    /\ LET r == RenderTweens(tweens, target, y)
       IN  /\ tweens' = r.tw
           /\ target' = IF duringTween \cap {"wheel", "keydown", "touchmove"} = {}
                        THEN r.target ELSE target
           /\ y' = r.y
           /\ lastOp' = IF Len(r.tw) < Len(tweens) THEN "tweenEnd" ELSE "tween"
    /\ UNCHANGED <<isLoaded, velocity, limit, momentum, progress, touchY,
                   contentHeight, innerHeight, scrollRAF, overlayFades,
                   enterClicks, rewindAlone>>
    /\ defaultPrevented' = FALSE
    /\ UNCHANGED <<lastTouchY, frameDone, signalAges, shaderVars, exactVars>>
    /\ UNCHANGED <<loaderVars, worldBooted, audioVars, effectVars>>
    /\ UNCHANGED duringTween

\* One frame of GSAP's ticker: every rewind tween in flight renders.
GsapTick ==
    /\ tweens # <<>>
    /\ LET r == RenderTweens(tweens, target, y)
       IN  /\ tweens' = r.tw
           /\ target' = r.target
           /\ y' = r.y
           /\ lastOp' = IF Len(r.tw) < Len(tweens) THEN "tweenEnd" ELSE "tween"
    /\ UNCHANGED <<isLoaded, velocity, limit, momentum, progress, touchY,
                   contentHeight, innerHeight, scrollRAF, overlayFades,
                   enterClicks, rewindAlone>>
    /\ defaultPrevented' = FALSE
    /\ UNCHANGED <<lastTouchY, frameDone, signalAges, shaderVars, exactVars>>
    /\ UNCHANGED <<loaderVars, worldBooted, audioVars, effectVars>>
    /\ UNCHANGED duringTween

(***************************************************************************)
(* Audio engine: AudioEngine_Boot, the scheduleClockTick timer chain and   *)
(* the modulateAudioByScroll frame loop.                                   *)
(***************************************************************************)
\* An interval computed over the velocity range of the lowpass modulation.
ClockIntervalByThousand(mom) ==
    LET intensity == Min(Abs(mom), FreqVelRange)
    IN  Max(BaseTickInterval - RoundDiv(intensity * TickSpan, FreqVelRange, 1),
            MinTickInterval)

\* dynamicInterval of scheduleClockTick for the momentum it reads, in ms
\* (rounded to the nearest millisecond).
ClockInterval(mom) ==
    LET intensity == Min(Abs(mom), TickVelRange)
    IN  Max(BaseTickInterval - RoundDiv(intensity * TickSpan, TickVelRange, 1),
            MinTickInterval)

\* targetFreq of modulateAudioByScroll for the momentum it reads, in Hz.
LowpassTarget(mom) ==
    MaxFreq - RoundDiv(Min(Abs(mom), FreqVelRange) * FreqSpan, FreqVelRange, 1)

\* A boot without the "Prevent double boot" guard.
AudioEngine_BootAgain(a, timers, rafs, delay, freq, mom) ==
    [actx |-> TRUE, tickTimers |-> timers + 1, audioRAF |-> rafs + 1,
     tickDelay |-> ClockInterval(mom), lowpassTarget |-> LowpassTarget(mom)]

\* window.AudioEngine_Boot: if (actx) return; otherwise the context is
\* created, scheduleClockTick() runs once and arms its timeout, and
\* modulateAudioByScroll() runs once and requests its next frame.
AudioEngine_Boot(a, timers, rafs, delay, freq, mom) ==
    IF a THEN [actx |-> a, tickTimers |-> timers, audioRAF |-> rafs,
               tickDelay |-> delay, lowpassTarget |-> freq]
    ELSE [actx |-> TRUE, tickTimers |-> timers + 1, audioRAF |-> rafs + 1,
          tickDelay |-> ClockInterval(mom), lowpassTarget |-> LowpassTarget(mom)]

\* scheduleClockTick run by its timeout: if (!actx) return; else the interval
\* is computed from the momentum read now and one timeout is armed with it.
ClockTick ==
    /\ tickTimers > 0
    /\ tickTimers' = IF actx THEN tickTimers ELSE tickTimers - 1
    /\ tickDelay' = IF actx THEN ClockInterval(momentum) ELSE tickDelay
    /\ lastOp' = "clockTick"
    /\ defaultPrevented' = FALSE
    /\ UNCHANGED <<isLoaded, target, y, velocity, limit, momentum, progress,
                   touchY, contentHeight, innerHeight, scrollRAF, tweens,
                   overlayFades, enterClicks, rewindAlone, lastTouchY,
                   frameDone, signalAges, shaderVars, exactVars>>
    /\ UNCHANGED <<actx, audioRAF, lowpassTarget>>
    /\ UNCHANGED <<loaderVars, worldBooted, effectVars>>
    /\ UNCHANGED duringTween

\* modulateAudioByScroll run by its animation-frame callback: if (!actx)
\* return; else the filter target is set and the next frame is requested.
AudioFrame ==
    /\ audioRAF > 0
    /\ audioRAF' = IF actx THEN audioRAF ELSE audioRAF - 1
    /\ lowpassTarget' = IF actx THEN LowpassTarget(momentum) ELSE lowpassTarget
    /\ lastOp' = "audioFrame"
    /\ defaultPrevented' = FALSE
    /\ UNCHANGED <<isLoaded, target, y, velocity, limit, momentum, progress,
                   touchY, contentHeight, innerHeight, scrollRAF, tweens,
                   overlayFades, enterClicks, rewindAlone, lastTouchY,
                   frameDone, signalAges, shaderVars, exactVars>>
    /\ UNCHANGED <<actx, tickTimers, tickDelay>>
    /\ UNCHANGED <<loaderVars, worldBooted, effectVars>>
    /\ UNCHANGED duringTween

(***************************************************************************)
(* Loader hand-off: the enter-btn click listener fades the overlay out and *)
(* the fade's onComplete sets state.isLoaded.                              *)
(***************************************************************************)
\* An interval callback that neither caps pct nor clears the interval.
LoaderTickUncapped(jump) ==
    /\ loadInterval
    /\ pct' = pct + jump
    /\ loaderTicks' = loaderTicks + 1
    /\ finishTimer' = (finishTimer \/ pct + jump >= 100)
    /\ lastOp' = "loaderTick"
    /\ defaultPrevented' = FALSE
    /\ UNCHANGED <<isLoaded, target, y, velocity, limit, momentum, progress,
                   touchY, contentHeight, innerHeight, scrollRAF, tweens,
                   overlayFades, enterClicks, rewindAlone, lastTouchY,
                   frameDone, signalAges, shaderVars, exactVars>>
    /\ UNCHANGED <<loadInterval, btnDisabled, worldBooted, audioVars, effectVars>>
    /\ UNCHANGED duringTween

\* The setInterval callback of initLoaderSequence, for a random jump: pct
\* grows by it; at 100 or more it is set to 100, the interval is cleared and
\* the 500 ms "Loading Finish" timeout is armed; then pct is displayed.
LoaderTick(jump) ==
    /\ loadInterval
    /\ pct' = IF pct + jump >= 100 THEN 100 ELSE pct + jump
    /\ loadInterval' = (pct + jump < 100)
    /\ finishTimer' = (finishTimer \/ pct + jump >= 100)
    /\ loaderTicks' = loaderTicks + 1
    /\ lastOp' = "loaderTick"
    /\ defaultPrevented' = FALSE
    /\ UNCHANGED <<isLoaded, target, y, velocity, limit, momentum, progress,
                   touchY, contentHeight, innerHeight, scrollRAF, tweens,
                   overlayFades, enterClicks, rewindAlone, lastTouchY,
                   frameDone, signalAges, shaderVars, exactVars>>
    /\ UNCHANGED <<btnDisabled, worldBooted, audioVars, effectVars>>
    /\ UNCHANGED duringTween

\* The "Loading Finish" timeout: the class "disabled" is removed from
\* enter-btn.
LoaderFinish ==
    /\ finishTimer
    /\ finishTimer' = FALSE
    /\ btnDisabled' = FALSE
    /\ lastOp' = "loaderFinish"
    /\ defaultPrevented' = FALSE
    /\ UNCHANGED <<isLoaded, target, y, velocity, limit, momentum, progress,
                   touchY, contentHeight, innerHeight, scrollRAF, tweens,
                   overlayFades, enterClicks, rewindAlone, lastTouchY,
                   frameDone, signalAges, shaderVars, exactVars>>
    /\ UNCHANGED <<pct, loaderTicks, loadInterval, worldBooted, audioVars,
                   effectVars>>
    /\ UNCHANGED duringTween

\* The click listener is registered when initLoaderSequence runs and tests
\* neither pct nor the class "disabled".
EnterClickUpTo(n) ==
    /\ enterClicks < n
    /\ enterClicks' = enterClicks + 1
    /\ overlayFades' = overlayFades + 1
    /\ lastOp' = "loader"
    /\ UNCHANGED <<isLoaded, target, y, velocity, limit, momentum, progress,
                   touchY, contentHeight, innerHeight, scrollRAF, tweens,
                   rewindAlone>>
    /\ defaultPrevented' = FALSE
    /\ UNCHANGED <<lastTouchY, frameDone, signalAges, shaderVars, exactVars>>
    /\ LET a == AudioEngine_Boot(actx, tickTimers, audioRAF, tickDelay,
                                 lowpassTarget, momentum)
       IN  /\ actx' = a.actx
           /\ tickTimers' = a.tickTimers
           /\ audioRAF' = a.audioRAF
           /\ tickDelay' = a.tickDelay
           /\ lowpassTarget' = a.lowpassTarget
    /\ UNCHANGED <<loaderVars, worldBooted, effectVars>>
    /\ UNCHANGED duringTween

EnterClick == EnterClickUpTo(MaxEnterClicks)

\* An onComplete that dispatches 'world-booted' before it sets the flag.
OverlayFadeDispatchFirst ==
    /\ overlayFades > 0
    /\ overlayFades' = overlayFades - 1
    /\ isLoaded' = TRUE
    /\ lastOp' = "loader"
    /\ UNCHANGED <<target, y, velocity, limit, momentum, progress, touchY,
                   contentHeight, innerHeight, scrollRAF, tweens, enterClicks,
                   rewindAlone>>
    /\ defaultPrevented' = FALSE
    /\ UNCHANGED <<lastTouchY, frameDone, signalAges, shaderVars, exactVars>>
    /\ worldBooted' = IF isLoaded THEN "loaded" ELSE "notLoaded"
    /\ UNCHANGED <<loaderVars, audioVars, effectVars>>
    /\ UNCHANGED duringTween

\* onComplete of the overlay fade: the loader is hidden, state.isLoaded is
\* set and then 'world-booted' is dispatched; once per click.
OverlayFadeComplete ==
    /\ overlayFades > 0
    /\ overlayFades' = overlayFades - 1
    /\ isLoaded' = TRUE
    /\ lastOp' = "loader"
    /\ UNCHANGED <<target, y, velocity, limit, momentum, progress, touchY,
                   contentHeight, innerHeight, scrollRAF, tweens, enterClicks,
                   rewindAlone>>
    /\ defaultPrevented' = FALSE
    /\ UNCHANGED <<lastTouchY, frameDone, signalAges, shaderVars, exactVars>>
    /\ worldBooted' = IF isLoaded' THEN "loaded" ELSE "notLoaded"
    /\ UNCHANGED <<loaderVars, audioVars, effectVars>>
    /\ UNCHANGED duringTween

(***************************************************************************)
(* Scene effects: TimelineAnimator.activateNode and                        *)
(* SceneTransitionController.triggerTransition, called by the ScrollTrigger *)
(* callbacks of the timeline nodes and of the sections.                    *)
(***************************************************************************)
Nodes == 0..(NumNodes - 1)
Sections == 0..(NumSections - 1)

\* An activateNode that only ever adds the class.
ActivateNodeAddsOnly(index, ai, an, ls) ==
    IF index = ai THEN [activeIndex |-> ai, activeNodes |-> an, lineScale |-> ls]
    ELSE [activeIndex |-> index,
          activeNodes |-> an \cup {i \in Nodes: i <= index},
          lineScale |-> index + 1]

\* activateNode(index): nothing if index is the active one; else the index is
\* stored, every node up to it gets is-active and every later node loses
\* it, and the line is scaled to (index + 1) / nodes.length.
ActivateNode(index, ai, an, ls) ==
    IF index = ai THEN [activeIndex |-> ai, activeNodes |-> an, lineScale |-> ls]
    ELSE [activeIndex |-> index,
          activeNodes |-> {i \in Nodes: i <= index},
          lineScale |-> index + 1]

\* onEnter and onEnterBack of timeline node i both call activateNode(i).
NodeEnter(i) ==
    /\ LET a == ActivateNode(i, activeIndex, activeNodes, lineScale)
       IN  /\ activeIndex' = a.activeIndex
           /\ activeNodes' = a.activeNodes
           /\ lineScale' = a.lineScale
    /\ lastOp' = "nodeEnter"
    /\ defaultPrevented' = FALSE
    /\ UNCHANGED <<isLoaded, target, y, velocity, limit, momentum, progress,
                   touchY, contentHeight, innerHeight, scrollRAF, tweens,
                   overlayFades, enterClicks, rewindAlone, lastTouchY,
                   frameDone, signalAges, shaderVars, exactVars>>
    /\ UNCHANGED <<maskLeft, isAnimating, maskTweens, maskScaleX, sceneInd>>
    /\ UNCHANGED <<loaderVars, worldBooted, audioVars, duringTween>>

\* A triggerTransition without the isAnimating test.
TriggerTransitionUnguarded(mask, anim, tw) ==
    IF ~mask THEN [isAnimating |-> anim, maskTweens |-> tw]
    ELSE [isAnimating |-> TRUE, maskTweens |-> Append(tw, "close")]

\* triggerTransition(): returns if .mask-left is missing or a transition is
\* running; else sets isAnimating and starts the closing tween.
TriggerTransition(mask, anim, tw) ==
    IF ~mask \/ anim THEN [isAnimating |-> anim, maskTweens |-> tw]
    ELSE [isAnimating |-> TRUE, maskTweens |-> Append(tw, "close")]

\* onEnter of section i: updateSceneIndicator(i + 1), and triggerTransition()
\* for every section but the first.
SectionEnter(i) ==
    /\ sceneInd' = i + 1
    /\ LET t == IF i > 0 THEN TriggerTransition(maskLeft, isAnimating, maskTweens)
                ELSE [isAnimating |-> isAnimating, maskTweens |-> maskTweens]
       IN  /\ isAnimating' = t.isAnimating
           /\ maskTweens' = t.maskTweens
    /\ lastOp' = "sectionEnter"
    /\ defaultPrevented' = FALSE
    /\ UNCHANGED <<isLoaded, target, y, velocity, limit, momentum, progress,
                   touchY, contentHeight, innerHeight, scrollRAF, tweens,
                   overlayFades, enterClicks, rewindAlone, lastTouchY,
                   frameDone, signalAges, shaderVars, exactVars>>
    /\ UNCHANGED <<maskLeft, activeIndex, activeNodes, lineScale, maskScaleX>>
    /\ UNCHANGED <<loaderVars, worldBooted, audioVars, duringTween>>

\* onEnterBack of section i: updateSceneIndicator(i + 1) only.
SectionEnterBack(i) ==
    /\ sceneInd' = i + 1
    /\ lastOp' = "sectionEnterBack"
    /\ defaultPrevented' = FALSE
    /\ UNCHANGED <<isLoaded, target, y, velocity, limit, momentum, progress,
                   touchY, contentHeight, innerHeight, scrollRAF, tweens,
                   overlayFades, enterClicks, rewindAlone, lastTouchY,
                   frameDone, signalAges, shaderVars, exactVars>>
    /\ UNCHANGED <<maskLeft, isAnimating, maskTweens, activeIndex, activeNodes,
                   lineScale, maskScaleX>>
    /\ UNCHANGED <<loaderVars, worldBooted, audioVars, duringTween>>

\* The oldest mask tween completes: onComplete of the closing tween starts
\* the opening one; onComplete of the opening tween resets isAnimating.
MaskTweenComplete ==
    /\ maskTweens # <<>>
    /\ IF Head(maskTweens) = "close"
       THEN /\ maskTweens' = Append(Tail(maskTweens), "open")
            /\ maskScaleX' = 1
            /\ UNCHANGED isAnimating
       ELSE /\ maskTweens' = Tail(maskTweens)
            /\ maskScaleX' = 0
            /\ isAnimating' = FALSE
    /\ lastOp' = "maskTween"
    /\ defaultPrevented' = FALSE
    /\ UNCHANGED <<isLoaded, target, y, velocity, limit, momentum, progress,
                   touchY, contentHeight, innerHeight, scrollRAF, tweens,
                   overlayFades, enterClicks, rewindAlone, lastTouchY,
                   frameDone, signalAges, shaderVars, exactVars>>
    /\ UNCHANGED <<maskLeft, activeIndex, activeNodes, lineScale, sceneInd>>
    /\ UNCHANGED <<loaderVars, worldBooted, audioVars, duringTween>>

(***************************************************************************)
(* Layout shift: the content height changes (an image loads) and neither   *)
(* a resize event nor a ScrollTrigger refresh follows.                     *)
(***************************************************************************)
LayoutShift(ch) ==
    /\ ch # contentHeight
    /\ contentHeight' = ch
    /\ lastOp' = "layoutShift"
    /\ defaultPrevented' = FALSE
    /\ UNCHANGED <<isLoaded, target, y, velocity, limit, momentum, progress,
                   touchY, innerHeight, scrollRAF, tweens, overlayFades,
                   enterClicks, rewindAlone, lastTouchY, frameDone, signalAges,
                   shaderVars, exactVars>>
    /\ UNCHANGED <<loaderVars, worldBooted, audioVars, effectVars>>
    /\ UNCHANGED duringTween

(***************************************************************************)
(* Signal consumer: one frame of canvas.js render, which reads             *)
(* window.__SCROLL_MOMENTUM and window.__GLOBAL_PROGRESS and smooths them  *)
(* into the shader uniforms.                                               *)
(***************************************************************************)
\* uniforms.u += (s - uniforms.u) * 0.1, on a grid of q.
Smooth(u, sv, q) == u + RoundDiv((sv - u) * ShaderEasePercent, 100, q)

Render ==
    /\ "shader" \notin frameDone
    /\ frameDone' = frameDone \cup {"shader"}
    /\ uniforms' = [u_scrollVelocity |-> Smooth(uniforms.u_scrollVelocity, momentum, Quantum),
                    u_scrollProgress |-> Smooth(uniforms.u_scrollProgress, progress, 1)]
    /\ readAges' = signalAges
    /\ lastOp' = "render"
    /\ defaultPrevented' = FALSE
    /\ UNCHANGED <<isLoaded, target, y, velocity, limit, momentum, progress,
                   touchY, contentHeight, innerHeight, scrollRAF, tweens,
                   overlayFades, enterClicks, rewindAlone, lastTouchY,
                   signalAges, exactVars>>
    /\ UNCHANGED <<loaderVars, worldBooted, audioVars, effectVars>>
    /\ UNCHANGED duringTween

\* The host starts the next animation frame once every callback requested
\* for this one has run.
BeginFrame ==
    /\ "shader" \in frameDone
    /\ scrollRAF => "scroll" \in frameDone
    /\ frameDone' = {}
    /\ signalAges' = [momentum |-> Min(MaxAge, signalAges.momentum + 1),
                      progress |-> Min(MaxAge, signalAges.progress + 1)]
    /\ UNCHANGED <<isLoaded, target, y, velocity, limit, momentum, progress,
                   touchY, contentHeight, innerHeight, scrollRAF, tweens,
                   overlayFades, enterClicks, rewindAlone, lastOp,
                   defaultPrevented, lastTouchY, shaderVars, exactVars>>
    /\ UNCHANGED <<loaderVars, worldBooted, audioVars, effectVars>>
    /\ UNCHANGED duringTween

\* fluidScrollRender runs once per frame.
FrameTick(thrower) ==
    /\ "scroll" \notin frameDone
    /\ Tick(thrower)

(***************************************************************************)
(* The integrator on a fine grid: a pixel-mode wheel delta applied at rest *)
(* at the top with limit 1000, then frames with no further input.          *)
(***************************************************************************)
ExactWheel(delta) ==
    /\ exactTarget' = Clamp(delta * ExactScale, 1000 * ExactScale)
    /\ exactY' = 0
    /\ exactTicks' = 0
    /\ UNCHANGED <<isLoaded, target, y, velocity, limit, momentum, progress,
                   touchY, contentHeight, innerHeight, scrollRAF, tweens,
                   overlayFades, enterClicks, rewindAlone, lastOp,
                   defaultPrevented, lastTouchY, frameDone, signalAges,
                   shaderVars>>
    /\ UNCHANGED <<loaderVars, worldBooted, audioVars, effectVars>>
    /\ UNCHANGED duringTween

\* A frame that eases by a quarter of the distance.
ExactTickFast ==
    /\ exactTarget > 0
    /\ exactTicks < MaxExactTicks
    /\ exactY' = exactY + RoundDiv((exactTarget - exactY) * 25, 100, 1)
    /\ exactTicks' = exactTicks + 1
    /\ UNCHANGED <<isLoaded, target, y, velocity, limit, momentum, progress,
                   touchY, contentHeight, innerHeight, scrollRAF, tweens,
                   overlayFades, enterClicks, rewindAlone, lastOp,
                   defaultPrevented, lastTouchY, frameDone, signalAges,
                   shaderVars, exactTarget>>
    /\ UNCHANGED <<loaderVars, worldBooted, audioVars, effectVars>>
    /\ UNCHANGED duringTween

ExactTick ==
    /\ exactTarget > 0
    /\ exactTicks < MaxExactTicks
    /\ exactY' = LerpExact(exactY, exactTarget)
    /\ exactTicks' = exactTicks + 1
    /\ UNCHANGED <<isLoaded, target, y, velocity, limit, momentum, progress,
                   touchY, contentHeight, innerHeight, scrollRAF, tweens,
                   overlayFades, enterClicks, rewindAlone, lastOp,
                   defaultPrevented, lastTouchY, frameDone, signalAges,
                   shaderVars, exactTarget>>
    /\ UNCHANGED <<loaderVars, worldBooted, audioVars, effectVars>>
    /\ UNCHANGED duringTween

Next ==
    \/ \E e \in WheelEvents: Wheel(e)
    \/ \E key \in Keys: KeyDown(key)
    \/ \E cy \in TouchYs: TouchStart(cy)
    \/ \E cy \in TouchYs: TouchMove(cy)
    \/ \E l \in Layouts: Resize(l)
    \/ \E thrower \in Throwers: Tick(thrower)
    \/ EnterClick
    \/ OverlayFadeComplete

Spec == Init /\ [][Next]_vars

\* The page after the loader hand-off (one click on enter-btn, its fade
\* complete), at rest at the position pos, for a layout l and a document in
\* which .mask-left exists or not and the nodes in active carry is-active.
LoadedPage(l, pos, mask, active) ==
    /\ contentHeight = l[1]
    /\ innerHeight = l[2]
    /\ limit = Bounds(l[1], l[2])
    /\ isLoaded = TRUE
    /\ target = pos
    /\ y = pos
    /\ velocity = 0
    /\ momentum = 0
    /\ progress = PublishedProgress(pos, Bounds(l[1], l[2]), 0)
    /\ touchY = 0
    /\ scrollRAF = TRUE
    /\ tweens = <<>>
    /\ overlayFades = 0
    /\ enterClicks = 1
    /\ rewindAlone = FALSE
    /\ lastOp = "loader"
    /\ defaultPrevented = FALSE
    /\ lastTouchY = 0
    /\ frameDone = {}
    /\ signalAges = [momentum |-> 0, progress |-> 0]
    /\ uniforms = [u_scrollVelocity |-> 0, u_scrollProgress |-> 0]
    /\ readAges = [momentum |-> 0, progress |-> 0]
    /\ exactTarget = 0
    /\ exactY = 0
    /\ exactTicks = 0
    /\ pct = 0
    /\ loaderTicks = 0
    /\ loadInterval = TRUE
    /\ finishTimer = FALSE
    /\ btnDisabled = TRUE
    /\ maskLeft = mask
    /\ isAnimating = FALSE
    /\ maskTweens = <<>>
    /\ activeIndex = -1
    /\ activeNodes = active
    /\ lineScale = 0
    /\ maskScaleX = 0
    /\ sceneInd = 0
    /\ duringTween = {}
    /\ worldBooted = "loaded"
    /\ actx = TRUE
    /\ tickTimers = 1
    /\ audioRAF = 1
    /\ tickDelay = BaseTickInterval
    /\ lowpassTarget = MaxFreq

\* A state Spec reaches.
LoadedInit == \E l \in Layouts: LoadedPage(l, 0, TRUE, {})


\* The wheel gesture that scrolls the page down before and during a rewind.
RewindWheelEvents == {e \in WheelEvents: e[1] > 0}

\* The rewind command racing the integrator and the wheel, once loaded.
NextRewind ==
    \/ \E e \in RewindWheelEvents: Wheel(e)
    \/ \E thrower \in Throwers: Tick(thrower)
    \/ ScrollRestore
    \/ RewindClick
    \/ GsapTick

RewindSpec == LoadedInit /\ [][NextRewind]_vars

\* Wheel and keyboard input and the integrator loop, once loaded, in a fixed
\* layout.
NextFrames ==
    \/ \E e \in WheelEvents: Wheel(e)
    \/ \E key \in Keys: KeyDown(key)
    \/ \E thrower \in Throwers: Tick(thrower)

\* The host runs every scheduled animation-frame callback: while the loop
\* stays scheduled (no frame threw), frames keep running to completion.
FairSpec == LoadedInit /\ [][NextFrames]_vars /\ WF_vars(Tick("none"))

\* The input handlers alone, before and after the loader hand-off.
NextInput ==
    \/ \E e \in WheelEvents: Wheel(e)
    \/ \E key \in Keys: KeyDown(key)
    \/ \E cy \in TouchYs: TouchStart(cy)
    \/ \E cy \in TouchYs: TouchMove(cy)
    \/ \E l \in Layouts: Resize(l)
    \/ EnterClick
    \/ OverlayFadeComplete

InputSpec == Init /\ [][NextInput]_vars

\* The integrator and the shader render loop, each once per frame in either
\* order, with wheel input, layout shifts and ScrollTrigger's write-back.
NextFrame ==
    \/ \E e \in RewindWheelEvents: Wheel(e)
    \/ \E l \in Layouts: LayoutShift(l[1])
    \/ \E thrower \in Throwers: FrameTick(thrower)
    \/ Render
    \/ BeginFrame
    \/ ScrollRestore

FrameSpec == LoadedInit /\ [][NextFrame]_vars

\* The fine-grained integrator alone.
NextExact ==
    \/ \E delta \in ExactDeltas: ExactWheel(delta)
    \/ ExactTick

ExactSpec == LoadedInit /\ [][NextExact]_vars

\* The three input handlers and the integrator loop, once loaded.
NextHandlers ==
    \/ \E e \in WheelEvents: Wheel(e)
    \/ \E key \in Keys: KeyDown(key)
    \/ \E cy \in TouchYs: TouchStart(cy)
    \/ \E cy \in TouchYs: TouchMove(cy)
    \/ \E thrower \in Throwers: Tick(thrower)

HandlerSpec == LoadedInit /\ [][NextHandlers]_vars

\* A page tall enough for the momentum to pass the range of the clock tick.
AudioLayout == <<2500, 500>>
AudioInit == LoadedPage(AudioLayout, 0, TRUE, {})

\* The keys that send the page to its end and back to its start.
AudioKeys == {"End", "Home"}

\* The integrator and the clock-tick timer chain while the page is sent from
\* one end to the other.
NextAudio ==
    \/ \E key \in AudioKeys: KeyDown(key)
    \/ \E thrower \in Throwers: Tick(thrower)
    \/ ClockTick

AudioSpec == AudioInit /\ [][NextAudio]_vars

\* The three per-frame loops: the integrator, the shader render and the
\* audio modulation, with a downward wheel gesture.
NextLoops ==
    \/ \E e \in RewindWheelEvents: Wheel(e)
    \/ \E thrower \in Throwers: Tick(thrower)
    \/ Render
    \/ AudioFrame
    \/ BeginFrame

LoopSpec == LoadedInit /\ [][NextLoops]_vars

\* The loader: the interval, its finish timeout, clicks on enter-btn, the
\* overlay fade and the audio engine the click boots.
NextLoader ==
    \/ \E jump \in 1..MaxJump: LoaderTick(jump)
    \/ LoaderFinish
    \/ EnterClickUpTo(MaxLoaderClicks)
    \/ OverlayFadeComplete
    \/ ClockTick
    \/ AudioFrame

LoaderSpec == Init /\ [][NextLoader]_vars

\* The key pressed while a rewind runs.
RaceKeys == {"End"}

\* The page the rewinds are raced on, scrolled to its end and at rest.
RaceLayout == <<1000, 500>>
RaceInit == LoadedPage(RaceLayout, Bounds(RaceLayout[1], RaceLayout[2]), TRUE, {})

\* Rewind clicks, up to MaxRaceTweens of them overlapping, racing the three
\* input handlers.
NextRace ==
    \/ \E e \in RewindWheelEvents: Wheel(e)
    \/ \E key \in RaceKeys: KeyDown(key)
    \/ \E cy \in TouchYs: TouchMove(cy)
    \/ RewindClickUpTo(MaxRaceTweens)
    \/ GsapTick

RaceSpec == RaceInit /\ [][NextRace]_vars

\* The loaded page of a document that has .mask-left or not and whose
\* timeline nodes carry is-active or not in the markup.
EffectsInit ==
    \E mask \in BOOLEAN, active \in SUBSET Nodes:
        LoadedPage(RaceLayout, 0, mask, active)

\* The ScrollTrigger callbacks of the timeline nodes and of the sections, and
\* the mask tweens.
NextEffects ==
    \/ \E i \in Nodes: NodeEnter(i)
    \/ \E i \in Sections: SectionEnter(i)
    \/ \E i \in Sections: SectionEnterBack(i)
    \/ MaskTweenComplete

\* GSAP's ticker runs every tween to its end.
EffectsSpec == EffectsInit /\ [][NextEffects]_vars /\ WF_vars(MaskTweenComplete)

(***************************************************************************)
(* Step and state descriptions used by the properties.                     *)
(***************************************************************************)
\* The distance below which (target - y) * ease rounds to no change of y.
Residue == (50 * Quantum) \div EasePercent

C2_PositionWithinLimit ==
    (lastOp = "tick" /\ limit > 0) => (0 <= y /\ y <= limit)

(***************************************************************************)
(* C3.  The published progress is always in [0, 1], and after a frame run  *)
(* with limit <= 0 it is exactly 0.                                        *)
(***************************************************************************)
C3_ProgressBound ==
    /\ 0 <= progress /\ progress <= ProgressDenom
    /\ (lastOp = "tick" /\ limit <= 0) => progress = 0

(***************************************************************************)
(* C4.  Original statement: with target fixed and no further input,        *)
(* repeated frames never move y past target nor away from it, and y        *)
(* eventually comes within every epsilon > 0 of target (on the model's     *)
(* grid: reaches target).                                                  *)
(***************************************************************************)
\* A frame keeps y on its side of target and does not increase the distance.
NoOvershoot ==
    /\ (target - y) * (target' - y') >= 0
    /\ Abs(target' - y') <= Abs(target - y)

\* From some point on only frames of a live integrator loop run.
OnlyFrames == <>[](lastOp = "tick" /\ scrollRAF)

C5_TickOrder ==
    [][lastOp' = "tick" =>
        /\ Abs(100 * (y' - y) - EasePercent * (target - y)) <= 50 * Quantum
        /\ velocity' = target' - y'
        /\ momentum' = velocity']_vars

\* ease 0.08, y = 0, target = 500: one frame gives y = 40, velocity = momentum = 460.
C5_Witness ==
    lastOp = "tick" /\ target = 500 /\ y = 40 /\ velocity = 460 /\ momentum = 460

C7_RewindMonotone ==
    [][(rewindAlone /\ rewindAlone') =>
        /\ y' <= y
        /\ lastOp' = "tweenEnd" => (y' = 0 /\ target' = 0)]_vars

\* Such a rewind has run to its end.
C7_Witness ==
    rewindAlone /\ lastOp = "tweenEnd" /\ y = 0 /\ target = 0 /\ tweens = <<>>

(***************************************************************************)
(* C8.  A frame clamps target to the current limit before it integrates:   *)
(* after a frame, target does not exceed the limit.                        *)
(***************************************************************************)
C8_TickClampsTarget ==
    (lastOp = "tick" /\ limit >= 0) => target <= limit

(***************************************************************************)
(* C9.  While isLoaded is false no wheel, keydown or touchmove changes     *)
(* target: it keeps its boot value 0.                                      *)
(***************************************************************************)
C9_NoInputBeforeLoad ==
    ~isLoaded => target = 0

\* An input event was delivered before the ready signal, with room to scroll.
C9_Witness ==
    ~isLoaded /\ lastOp = "input" /\ limit > 0 /\ target = 0

(***************************************************************************)
(* C10.  A throw inside one frame does not stop the loop: after every      *)
(* frame the next frame's callback is scheduled.                           *)
(***************************************************************************)
C10_LoopSurvivesThrow ==
    lastOp = "tick" => scrollRAF

(***************************************************************************)
(* C11.  No consumer of the signals writes the scroll state: target is     *)
(* changed only by the input handlers and the rewind, y only by the        *)
(* integrator frame and the rewind tween, and the shader render loop and   *)
(* the timeline library's calls of the scrollerProxy scrollTop accessor    *)
(* leave target, y, velocity and limit unchanged.                          *)
(***************************************************************************)
C11_ConsumersLeaveScrollState ==
    [][/\ target' # target => lastOp' \in {"input", "tween", "tweenEnd"}
       /\ y' # y => lastOp' \in {"tick", "tween", "tweenEnd"}
       /\ lastOp' \in {"render", "scrollTop"} =>
            UNCHANGED <<target, y, velocity, limit>>]_vars

(***************************************************************************)
(* C12.  Every momentum and progress value the shader render loop reads    *)
(* was computed by the integrator frame of the same or of the preceding    *)
(* animation frame, whatever limit is, while the integrator loop is alive. *)
(***************************************************************************)
C12_StalenessAtMostOneFrame ==
    (lastOp = "render" /\ scrollRAF) =>
        (readAges.momentum <= 1 /\ readAges.progress <= 1)

(***************************************************************************)
(* C13.  In every reachable state the sign of velocity is the sign of      *)
(* target - y, also right after an input event that no frame has followed. *)
(***************************************************************************)
C13_VelocitySign ==
    /\ target > y => velocity > 0
    /\ target < y => velocity < 0
    /\ target = y => velocity = 0

(***************************************************************************)
(* C14.  Original statement: limit 1000, ease 0.08, y = 0, target = 500:   *)
(* after 51 frames with no new input, |500 - y| < 0.001.                   *)
(***************************************************************************)
C14_Original ==
    (exactTarget = 500 * ExactScale /\ exactTicks = 51) =>
        1000 * Abs(exactTarget - exactY) < ExactScale

\* C14 (amended): limit 1000, ease 0.08, y = 0, target = 500: after 51 frames
\* with no new input, |500 - y| lies between 7 and 7.2 (500 * 0.92^51 = 7.11),
\* and y has not passed target.
C14_DistanceAfter51Ticks ==
    (exactTarget = 500 * ExactScale /\ exactTicks = 51) =>
        /\ exactY < exactTarget
        /\ 10 * (exactTarget - exactY) > 70 * ExactScale
        /\ 10 * (exactTarget - exactY) < 72 * ExactScale

\* The 51st frame after the wheel delta of +500 has run.
C14_Witness ==
    exactTarget = 500 * ExactScale /\ exactTicks = 51 /\ exactY > 0

(***************************************************************************)
(* C15.  A keydown handled while isLoaded maps to target: ArrowDown +100,   *)
(* ArrowUp -100, PageDown and Space +0.8 * innerHeight, PageUp             *)
(* -0.8 * innerHeight, each clamped to [0, limit]; Home sets 0; End sets   *)
(* limit and the result lies within [0, limit]; any other key leaves       *)
(* target unchanged.                                                       *)
(***************************************************************************)
C15_KeyMapping ==
    [][\A key \in Keys: (isLoaded /\ KeyDown(key)) =>
        CASE key = "ArrowDown" -> target' = Max(0, Min(target + 100, limit))
          [] key = "ArrowUp" -> target' = Max(0, Min(target - 100, limit))
          [] key \in {"PageDown", " "} ->
                target' = Max(0, Min(target + (8 * innerHeight) \div 10, limit))
          [] key = "PageUp" ->
                target' = Max(0, Min(target - (8 * innerHeight) \div 10, limit))
          [] key = "Home" -> target' = 0
          [] key = "End" -> target' = limit /\ 0 <= target' /\ target' <= limit
          [] OTHER -> target' = target]_vars

(***************************************************************************)
(* C16.  Every keydown for ArrowDown, ArrowUp, PageDown, Space, PageUp,    *)
(* Home or End handled while isLoaded has preventDefault called on it.     *)
(***************************************************************************)
C16_ScrollKeysPrevented ==
    [][\A key \in {"ArrowDown", "ArrowUp", "PageDown", " ", "PageUp", "Home", "End"}:
        (isLoaded /\ KeyDown(key)) => defaultPrevented']_vars

(***************************************************************************)
(* C17.  Each touchmove handled while isLoaded changes target by 2.5 times *)
(* (Y of the touch event delivered just before - its own Y), clamped to    *)
(* [0, limit], also when earlier touchmoves of the gesture arrived while   *)
(* isLoaded was false.                                                     *)
(***************************************************************************)
C17_TouchDelta ==
    [][\A cy \in TouchYs: (isLoaded /\ TouchMove(cy)) =>
        target' = Max(0, Min(target + (25 * (lastTouchY - cy)) \div 10, limit))]_vars

(***************************************************************************)
(* C18.  A wheel event handled while isLoaded changes target to            *)
(* clamp(target + d, 0, limit), d = 40 * deltaY in line units              *)
(* (deltaMode 1) and d = deltaY in pixel units (deltaMode 0).              *)
(***************************************************************************)
C18_WheelDelta ==
    [][\A e \in WheelEvents: (isLoaded /\ Wheel(e)) =>
        /\ e[2] = 1 => target' = Max(0, Min(target + 40 * e[1], limit))
        /\ e[2] = 0 => target' = Max(0, Min(target + e[1], limit))]_vars

\* A line-mode wheel event of -5 lines has taken target from 500 to 300.
C18_Witness ==
    /\ isLoaded /\ lastOp = "input" /\ ~defaultPrevented
    /\ limit = 500 /\ target = 300 /\ touchY = 0 /\ lastTouchY = 0

(***************************************************************************)
(* C19.  Every frame recomputes limit from the current content and         *)
(* viewport heights: after a frame, limit = content height - innerHeight,  *)
(* also when the content height changed without a resize or refresh.       *)
(***************************************************************************)
C19_TickRecomputesLimit ==
    lastOp = "tick" => limit = contentHeight - innerHeight

(***************************************************************************)
(* C20.  If target = y before a frame, the frame leaves target and y       *)
(* unchanged and sets velocity and the published momentum to 0.            *)
(***************************************************************************)
C20_RestIsFixedPoint ==
    [][(lastOp' = "tick" /\ y = target) =>
        (y' = y /\ target' = target /\ velocity' = 0 /\ momentum' = 0)]_vars

\* A frame has run at rest away from the top.
C20_Witness ==
    lastOp = "tick" /\ y = target /\ target > 0 /\ velocity = 0 /\ momentum = 0

\* C21: a wheel, keydown or touchmove handler leaves the position y, the
\* velocity, the limit and the two published signals as they were; of the
\* scroll state only target may differ after it.
C21_HandlersChangeOnlyTarget ==
    [][lastOp' \in {"input", "keyIgnored"} =>
        UNCHANGED <<y, velocity, limit, momentum, progress>>]_vars

\* A handler has just moved target while the page was in motion.
C21_Witness ==
    /\ lastOp = "input"
    /\ isLoaded
    /\ y > 0
    /\ velocity # 0
    /\ momentum # 0
    /\ target # y

\* C22: every per-frame loop that has started has a callback pending: the
\* integrator is scheduled, and once the audio engine has booted a
\* modulateAudioByScroll frame is requested (the shader render has no
\* statement that can skip its request).
C22_LoopsStayScheduled ==
    /\ scrollRAF
    /\ actx => audioRAF >= 1

\* C23: whenever isLoaded is true the loader counter pct has reached 100.
C23_LoadedOnlyAfterLoading == isLoaded => pct = 100

\* C24: the render that completes the last rewind tween in flight leaves
\* target = 0 and y = 0, whatever wheel, keydown and touchmove events moved
\* target and whatever further rewind clicks came while a tween was running.
C24_LastTweenEndWins ==
    [][(tweens # <<>> /\ tweens' = <<>>) => (target' = 0 /\ y' = 0)]_vars

\* The last of two overlapping rewinds has just ended after every handler
\* had moved target during them.
C24_Witness ==
    /\ lastOp = "tweenEnd"
    /\ tweens = <<>>
    /\ duringTween = {"wheel", "keydown", "touchmove", "rewind"}
    /\ target = 0
    /\ y = 0

\* C25: however often AudioEngine_Boot has been called, once the engine has
\* booted exactly one scheduleClockTick timeout is pending and exactly one
\* modulateAudioByScroll frame is requested; before the boot there is none.
C25_BootIdempotent ==
    /\ tickTimers = (IF actx THEN 1 ELSE 0)
    /\ audioRAF = (IF actx THEN 1 ELSE 0)

\* The enter button has been clicked twice and both loops have run since.
C25_Witness ==
    /\ enterClicks = 2
    /\ actx
    /\ lastOp \in {"clockTick", "audioFrame"}
    /\ tickTimers = 1
    /\ audioRAF = 1

\* C26: every run of scheduleClockTick re-arms itself with the delay
\* max(80, 1000 - 920 * min(|momentum| / 1500, 1)) ms of the momentum it
\* reads at that run; the delay lies in [80, 1000], is 1000 at momentum 0
\* and 80 from |momentum| = 1500 on.
C26_ClockDelay ==
    /\ [][lastOp' = "clockTick" =>
            /\ tickDelay' = Max(80, 1000 - RoundDiv(920 * Min(Abs(momentum), 1500), 1500, 1))
            /\ momentum = 0 => tickDelay' = 1000
            /\ Abs(momentum) >= 1500 => tickDelay' = 80]_vars
    /\ [](actx => tickDelay \in 80..1000)

\* The chain has just re-armed itself at the shortest delay while the page
\* was rushing upwards.
C26_Witness ==
    /\ lastOp = "clockTick"
    /\ momentum <= -1500
    /\ tickDelay = 80

\* C27: isLoaded never goes from true back to false, and every
\* 'world-booted' event is dispatched with isLoaded already true, however
\* often the enter button is clicked.
C27_LoadedIsStable ==
    /\ [][isLoaded => isLoaded']_vars
    /\ [](worldBooted # "notLoaded")

\* The fade of a second click has completed on a page that was loaded.
C27_Witness ==
    /\ enterClicks = 2
    /\ overlayFades = 0
    /\ isLoaded
    /\ worldBooted = "loaded"
    /\ lastOp = "loader"

\* C28: at most one mask transition runs at a time: a triggerTransition
\* that finds isAnimating set starts nothing and changes nothing; a
\* transition closes, then opens, and only the end of the opening tween
\* resets isAnimating, which every started transition eventually reaches.
C28_OneTransitionAtATime ==
    /\ [](Len(maskTweens) <= 1)
    /\ [](isAnimating <=> maskTweens # <<>>)
    /\ [][(lastOp' = "sectionEnter" /\ isAnimating) =>
            UNCHANGED <<isAnimating, maskTweens, maskScaleX>>]_vars
    /\ [][maskTweens = <<"close">> => maskTweens' \in {<<"close">>, <<"open">>}]_vars
    /\ [][(isAnimating /\ ~isAnimating') => (maskTweens = <<"open">> /\ maskTweens' = <<>>)]_vars
    /\ (isAnimating ~> ~isAnimating)

\* A transition started on entering the last section has run through both
\* of its phases.
C28_Witness ==
    /\ lastOp = "maskTween"
    /\ ~isAnimating
    /\ maskTweens = <<>>
    /\ maskScaleX = 0
    /\ sceneInd = NumSections

\* C29: once activateNode has been called, the nodes marked is-active are
\* exactly those with index <= activeIndex, whatever the markup marked
\* before; a call with the index that is already active changes nothing.
C29_ActivePrefix ==
    /\ [](activeIndex # -1 =>
            /\ activeIndex \in Nodes
            /\ activeNodes = {i \in Nodes: i <= activeIndex})
    /\ [][\A i \in Nodes: (NodeEnter(i) /\ i = activeIndex) =>
            UNCHANGED <<activeIndex, activeNodes, lineScale>>]_vars

\* activateNode has just run for the first node: it alone is marked,
\* whatever was marked before.
C29_Witness ==
    /\ lastOp = "nodeEnter"
    /\ activeIndex = 0
    /\ activeNodes = {0}
    /\ lineScale = 1

\* C30: the loader counter pct never decreases and never exceeds 100; after
\* n interval ticks it is at least min(n, 100), so it is 100 after at most
\* 100 ticks whatever the jumps; the interval is cleared exactly when pct
\* reaches 100 and no tick runs once pct is 100.
C30_LoaderCounter ==
    /\ [][pct' >= pct]_vars
    /\ [](pct \in 0..100)
    /\ [](loaderTicks <= 100 /\ pct >= Min(loaderTicks, 100))
    /\ [](loadInterval <=> pct < 100)
    /\ [][lastOp' = "loaderTick" => (pct < 100 /\ loaderTicks' = loaderTicks + 1)]_vars

\* The slowest load: a hundred ticks of jump 1 have brought pct to 100 and
\* cleared the interval.
C30_Witness ==
    /\ pct = 100
    /\ loaderTicks = 100
    /\ ~loadInterval

====
